---- MODULE Spec2Model ----
(***************************************************************************)
(* Model of the Antigravity language-server detector:                      *)
(*   UnixProcessDetector / WindowsProcessDetector  (output parsers)        *)
(*   ProcessPortDetector                           (retrying detection)    *)
(*                                                                         *)
(* Command output is a sequence of symbols.  A symbol is one character     *)
(* (a digit, a hex letter, "-", "=", " ", "\n") or one fixed literal the   *)
(* regular expressions of the source look for ("--csrf_token",             *)
(* "127.0.0.1:", "(LISTEN)", ...), or an opaque word ("user", "TCP").      *)
(* In every modelled output a literal is delimited by "=", white space     *)
(* or digits, as in the tools' real output.                                *)
(***************************************************************************)
EXTENDS Integers, Sequences, FiniteSets, TLC

(***************************************************************************)
(* Symbols and character classes                                           *)
(***************************************************************************)
\* \s of the regular expressions, and what trim() removes
WhiteSpace == {" ", "\n"}

\* \d
DigitSyms == <<"0", "1", "2", "3", "4", "5", "6", "7", "8", "9">>

Digit == {DigitSyms[i] : i \in 1..10}

\* [a-f0-9\-] under the i flag
TokenClass == Digit \cup {"a", "b", "c", "d", "e", "f", "A", "B", "C", "D", "E", "F", "-"}

\* [=\s]
FlagSep == {"="} \cup WhiteSpace

\* --extension_server_port (case sensitive)
PortFlag == {"--extension_server_port"}

\* --csrf_token under the i flag
TokenFlag == {"--csrf_token", "--CSRF_TOKEN"}

\* symbols that contain the text "(LISTEN)"
ParenListen == {"(LISTEN)"}

\* symbols that contain the text "LISTEN"
AnyListen == {"(LISTEN)", "LISTEN", "LISTENING"}

DigitVal(c) == CHOOSE n \in 0..9 : DigitSyms[n + 1] = c

Null == [kind |-> "null"]

NaN == [kind |-> "NaN"]

Num(n) == [kind |-> "num", val |-> n]

Min(S) == CHOOSE x \in S : \A y \in S : x <= y

(***************************************************************************)
(* String primitives of the JavaScript runtime, on symbol sequences        *)
(***************************************************************************)
\* number of consecutive symbols of class cls starting at position i
RECURSIVE RunLen(_, _, _)
RunLen(s, i, cls) ==
    IF i >= 1 /\ i <= Len(s) /\ s[i] \in cls THEN 1 + RunLen(s, i + 1, cls) ELSE 0

\* String.prototype.trim
RECURSIVE TrimLeft(_)
TrimLeft(s) ==
    IF s /= <<>> /\ Head(s) \in WhiteSpace THEN TrimLeft(Tail(s)) ELSE s

RECURSIVE TrimRight(_)
TrimRight(s) ==
    IF s /= <<>> /\ s[Len(s)] \in WhiteSpace THEN TrimRight(SubSeq(s, 1, Len(s) - 1)) ELSE s

Trim(s) == TrimRight(TrimLeft(s))

\* String.prototype.split('\n'): always at least one piece
RECURSIVE SplitLines(_)
SplitLines(s) ==
    LET nl == {i \in 1..Len(s) : s[i] = "\n"}
    IN  IF nl = {} THEN <<s>>
        ELSE <<SubSeq(s, 1, Min(nl) - 1)>> \o SplitLines(SubSeq(s, Min(nl) + 1, Len(s)))

\* String.prototype.split(/\s+/): pieces between maximal white-space runs
RECURSIVE SplitWs(_)
SplitWs(s) ==
    LET ws == {i \in 1..Len(s) : s[i] \in WhiteSpace}
    IN  IF ws = {} THEN <<s>>
        ELSE LET i == Min(ws)
                 n == RunLen(s, i, WhiteSpace)
             IN  <<SubSeq(s, 1, i - 1)>> \o SplitWs(SubSeq(s, i + n, Len(s)))

\* value of a non-empty digit sequence
RECURSIVE DigitsValue(_)
DigitsValue(d) ==
    IF d = <<>> THEN 0 ELSE 10 * DigitsValue(SubSeq(d, 1, Len(d) - 1)) + DigitVal(d[Len(d)])

\* parseInt(w, 10): optional sign, then the longest digit prefix; NaN without one
ParseInt(w) ==
    LET t    == TrimLeft(w)
        sign == IF t /= <<>> /\ t[1] \in {"-", "+"} THEN 1 ELSE 0
        n    == RunLen(t, sign + 1, Digit)
        v    == DigitsValue(SubSeq(t, sign + 1, sign + n))
    IN  IF n = 0 THEN NaN
        ELSE IF sign = 1 /\ t[1] = "-" THEN Num(0 - v) ELSE Num(v)

\* first match of  <flag>[=\s]+(<cls>+) : the captured group, <<>> without a match
FlagCapture(s, flags, cls) ==
    LET ok(i) == /\ s[i] \in flags
                 /\ RunLen(s, i + 1, FlagSep) >= 1
                 /\ RunLen(s, i + 1 + RunLen(s, i + 1, FlagSep), cls) >= 1
        at    == {i \in 1..Len(s) : ok(i)}
    IN  IF at = {} THEN <<>>
        ELSE LET a == Min(at) + 1 + RunLen(s, Min(at) + 1, FlagSep)
             IN  SubSeq(s, a, a + RunLen(s, a, cls) - 1)

\* Array.prototype.includes
Includes(ports, p) == \E i \in 1..Len(ports) : ports[i] = p

\* ports.push(port) without the includes test
PushAlways(ports, p) == Append(ports, p)

\* ports.push(port) guarded by !ports.includes(port)
PushNew(ports, p) == IF Includes(ports, p) THEN ports ELSE Append(ports, p)

\* Array.prototype.sort((a, b) => a - b): insertion into an ascending sequence
RECURSIVE InsertSorted(_, _)
InsertSorted(sorted, p) ==
    IF sorted = <<>> THEN <<p>>
    ELSE IF p - Head(sorted) < 0 THEN <<p>> \o sorted
    ELSE <<Head(sorted)>> \o InsertSorted(Tail(sorted), p)

\* the parsed order kept, no sort
Unsorted(ports) == ports

RECURSIVE SortAscending(_)
SortAscending(ports) ==
    IF ports = <<>> THEN <<>>
    ELSE InsertSorted(SortAscending(SubSeq(ports, 1, Len(ports) - 1)), ports[Len(ports)])

(***************************************************************************)
(* UnixProcessDetector                                                     *)
(***************************************************************************)
\* !stdout || stdout.trim().length === 0
IsBlank(stdout) == Len(Trim(stdout)) = 0

\* a parser that also gives up when --extension_server_port is missing
UnixParseProcessInfoPortRequired(stdout) ==
    LET portMatch  == FlagCapture(stdout, PortFlag, Digit)
        tokenMatch == FlagCapture(stdout, TokenFlag, TokenClass)
        columns    == SplitWs(Trim(SplitLines(Trim(stdout))[1]))
    IN  IF IsBlank(stdout) \/ Len(columns) < 2 THEN Null
        ELSE IF ParseInt(columns[2]) = NaN \/ tokenMatch = <<>> \/ portMatch = <<>> THEN Null
        ELSE [kind          |-> "info",
              pid           |-> ParseInt(columns[2]).val,
              extensionPort |-> ParseInt(portMatch).val,
              csrfToken     |-> tokenMatch]

UnixParseProcessInfo(stdout) ==
    IF IsBlank(stdout) THEN Null
    ELSE
    LET portMatch  == FlagCapture(stdout, PortFlag, Digit)
        tokenMatch == FlagCapture(stdout, TokenFlag, TokenClass)
        lines      == SplitLines(Trim(stdout))
        firstLine  == lines[1]
        columns    == SplitWs(Trim(firstLine))
        pid        == ParseInt(columns[2])
    IN  IF Len(lines) = 0 THEN Null
        ELSE IF Len(columns) < 2 THEN Null
        ELSE IF pid = NaN THEN Null
        ELSE IF tokenMatch = <<>> THEN Null
        ELSE [kind          |-> "info",
              pid           |-> pid.val,
              extensionPort |-> IF portMatch /= <<>> THEN ParseInt(portMatch).val ELSE 0,
              csrfToken     |-> tokenMatch]

\* first match in one line of  <host>(\d+).*<listen> : the digits, <<>> without a match
HostCapture(line, hosts, listen) ==
    LET ok(i) == /\ line[i] \in hosts
                 /\ RunLen(line, i + 1, Digit) >= 1
                 /\ \E p \in (i + 1 + RunLen(line, i + 1, Digit))..Len(line) : line[p] \in listen
        at    == {i \in 1..Len(line) : ok(i)}
    IN  IF at = {} THEN <<>>
        ELSE SubSeq(line, Min(at) + 1, Min(at) + RunLen(line, Min(at) + 1, Digit))

\* localhost:(\d+).*\(LISTEN\)|localhost:(\d+).*LISTEN : <<group 1, group 2>> of the
\* first match (the unused group is <<>>), <<>> without a match
LocalhostCapture(line) ==
    LET ok(i, listen) == /\ line[i] = "localhost:"
                         /\ RunLen(line, i + 1, Digit) >= 1
                         /\ \E p \in (i + 1 + RunLen(line, i + 1, Digit))..Len(line) : line[p] \in listen
        at     == {i \in 1..Len(line) : ok(i, ParenListen) \/ ok(i, AnyListen)}
        digits == SubSeq(line, Min(at) + 1, Min(at) + RunLen(line, Min(at) + 1, Digit))
    IN  IF at = {} THEN <<>>
        ELSE IF ok(Min(at), ParenListen) THEN <<digits, <<>>>>
        ELSE <<<<>>, digits>>

\* one iteration of the loop over lines
UnixScanLine(ports, line) ==
    LET lsofMatch      == HostCapture(line, {"127.0.0.1:"}, ParenListen)
        netstatMatch   == HostCapture(line, {"127.0.0.1:"}, AnyListen)
        localhostMatch == LocalhostCapture(line)
    IN  IF lsofMatch /= <<>> THEN PushNew(ports, ParseInt(lsofMatch).val)
        ELSE IF netstatMatch /= <<>> THEN PushNew(ports, ParseInt(netstatMatch).val)
        ELSE IF localhostMatch /= <<>>
             THEN PushNew(ports, ParseInt(IF localhostMatch[1] /= <<>> THEN localhostMatch[1]
                                          ELSE localhostMatch[2]).val)
        ELSE ports

RECURSIVE UnixScanLines(_, _)
UnixScanLines(ports, lines) ==
    IF lines = <<>> THEN ports
    ELSE UnixScanLines(UnixScanLine(ports, Head(lines)), Tail(lines))

UnixParseListeningPorts(stdout) ==
    IF IsBlank(stdout) THEN <<>>
    ELSE SortAscending(UnixScanLines(<<>>, SplitLines(Trim(stdout))))

(***************************************************************************)
(* WindowsProcessDetector                                                  *)
(***************************************************************************)
\* first match of  ProcessId=(\d+) : the digits, <<>> without a match
PidCapture(stdout) ==
    LET at == {i \in 1..Len(stdout) : stdout[i] = "ProcessId=" /\ RunLen(stdout, i + 1, Digit) >= 1}
    IN  IF at = {} THEN <<>>
        ELSE SubSeq(stdout, Min(at) + 1, Min(at) + RunLen(stdout, Min(at) + 1, Digit))

WindowsParseProcessInfo(stdout) ==
    LET portMatch  == FlagCapture(stdout, PortFlag, Digit)
        tokenMatch == FlagCapture(stdout, TokenFlag, TokenClass)
        pidMatch   == PidCapture(stdout)
    IN  IF pidMatch = <<>> THEN Null
        ELSE IF tokenMatch = <<>> THEN Null
        ELSE [kind          |-> "info",
              pid           |-> ParseInt(pidMatch).val,
              extensionPort |-> IF portMatch /= <<>> THEN ParseInt(portMatch).val ELSE 0,
              csrfToken     |-> tokenMatch]

\* whether  127\.0\.0\.1:(\d+)\s+0\.0\.0\.0:0\s+LISTENING  matches at position i
NetstatMatchAt(s, i) ==
    LET d  == i + 1
        w1 == d + RunLen(s, d, Digit)
        a  == w1 + RunLen(s, w1, WhiteSpace)
        w2 == a + 1
        l  == w2 + RunLen(s, w2, WhiteSpace)
    IN  /\ s[i] = "127.0.0.1:"
        /\ w1 > d
        /\ a > w1
        /\ a <= Len(s) /\ s[a] = "0.0.0.0:0"
        /\ l > w2
        /\ l <= Len(s) /\ s[l] = "LISTENING"

\* the while loop over portRegex.exec(stdout), from position i on
RECURSIVE WindowsScan(_, _, _)
WindowsScan(ports, s, i) ==
    IF i > Len(s) THEN ports
    ELSE IF NetstatMatchAt(s, i)
         THEN WindowsScan(PushNew(ports, ParseInt(SubSeq(s, i + 1, i + RunLen(s, i + 1, Digit))).val),
                          s, i + 1)
    ELSE WindowsScan(ports, s, i + 1)

WindowsParseListeningPorts(stdout) == SortAscending(WindowsScan(<<>>, stdout, 1))

(***************************************************************************)
(* IPlatformStrategy: the variant selected at construction                 *)
(***************************************************************************)
Platforms == {"unix", "windows"}

ParseProcessInfo(variant, stdout) ==
    IF variant = "windows" THEN WindowsParseProcessInfo(stdout) ELSE UnixParseProcessInfo(stdout)

ParseListeningPorts(variant, stdout) ==
    IF variant = "windows" THEN WindowsParseListeningPorts(stdout)
    ELSE UnixParseListeningPorts(stdout)

(***************************************************************************)
(* Output of the external commands, as the environment can produce it      *)
(***************************************************************************)
\* decimal rendering of a natural number
RECURSIVE ToDigits(_)
ToDigits(n) ==
    IF n < 10 THEN <<DigitSyms[n + 1]>> ELSE ToDigits(n \div 10) \o <<DigitSyms[(n % 10) + 1]>>

PortArg(p) == <<" ", "--extension_server_port", "=">> \o ToDigits(p)

TokenArg(t) == <<" ", "--csrf_token", "=">> \o t

TokenA == <<"a", "b", "1", "2", "c", "d", "3", "4", "-", "e", "f", "5", "6">>

TokenB == <<"C", "0", "-", "9", "d">>

\* one line of `ps aux`: user PID %CPU %MEM ... command line
UnixPsLine(pidWord, args) ==
    <<"user", " ", " ">> \o pidWord
        \o <<" ", "0.0", " ", "0.1", " ", "/opt/x/language_server_linux">> \o args \o <<"\n">>

\* `wmic ... get ProcessId,CommandLine /format:list`
WindowsPsOut(args, pidField) ==
    <<"\n", "CommandLine=", "language_server_windows_x64.exe">> \o args \o <<"\n">>
        \o pidField \o <<"\n", "\n">>

PsOutputs(variant) ==
    IF variant = "windows"
    THEN { WindowsPsOut(PortArg(2873) \o TokenArg(TokenA), <<"ProcessId=">> \o ToDigits(5678)),
           WindowsPsOut(TokenArg(TokenB), <<"ProcessId=">> \o ToDigits(0)),
           WindowsPsOut(PortArg(2873) \o TokenArg(TokenA), <<>>),
           WindowsPsOut(PortArg(2873), <<"ProcessId=">> \o ToDigits(5678)),
           <<"\n", "\n">> }
    ELSE { UnixPsLine(ToDigits(4412), PortArg(2873) \o TokenArg(TokenA)),
           UnixPsLine(ToDigits(977), TokenArg(TokenB)),
           UnixPsLine(ToDigits(4412), PortArg(2873)),
           UnixPsLine(ToDigits(4412), PortArg(2873)) \o UnixPsLine(ToDigits(977), TokenArg(TokenB)),
           <<>> }

\* one line of `lsof -Pan -p PID -i`
LsofLine(host, p, state) ==
    <<"language_", " ", "TCP", " ", host>> \o ToDigits(p) \o <<" ", state, "\n">>

\* one line of `netstat -tulpn` (Linux)
NetstatLine(host, p, state) ==
    <<"tcp", " ", "0", " ", host>> \o ToDigits(p) \o <<" ", "0.0.0.0:*", " ", state, "\n">>

\* one line of `netstat -ano` (Windows)
WinNetstatLine(host, p, state) ==
    <<" ", "TCP", " ", " ", host>> \o ToDigits(p) \o <<" ", " ", "0.0.0.0:0", " ", state, " ", "4", "\n">>

PortOutputs(variant) ==
    IF variant = "windows"
    THEN { WinNetstatLine("127.0.0.1:", 9001, "LISTENING") \o WinNetstatLine("127.0.0.1:", 8000, "LISTENING")
               \o WinNetstatLine("127.0.0.1:", 9001, "LISTENING"),
           WinNetstatLine("127.0.0.1:", 8000, "LISTENING") \o WinNetstatLine("127.0.0.1:", 0, "LISTENING"),
           WinNetstatLine("127.0.0.1:", 70000, "LISTENING") \o WinNetstatLine("127.0.0.1:", 8000, "LISTENING"),
           WinNetstatLine("0.0.0.0:", 8000, "LISTENING"),
           <<>> }
    ELSE { LsofLine("127.0.0.1:", 9001, "(LISTEN)") \o LsofLine("127.0.0.1:", 8000, "(LISTEN)")
               \o NetstatLine("127.0.0.1:", 9001, "LISTEN"),
           LsofLine("localhost:", 8000, "(LISTEN)") \o LsofLine("127.0.0.1:", 0, "(LISTEN)"),
           NetstatLine("127.0.0.1:", 70000, "LISTEN") \o NetstatLine("localhost:", 8000, "LISTEN"),
           LsofLine("*:", 8000, "(LISTEN)") \o LsofLine("127.0.0.1:", 8000, "(ESTABLISHED)"),
           <<>> }

\* how execAsync(command, {timeout}) settles: resolved with stdout, or rejected
\* (killed at the timeout, nonzero exit status, command not found)
ExecResults(outputs) ==
    {[kind |-> "ok", stdout |-> o] : o \in outputs}
        \cup {[kind |-> k, stdout |-> <<>>] : k \in {"timeout", "exit", "unavailable"}}

\* status codes a probed server answers with
StatusCodes == {200, 204, 404}

\* net.connect accepts a port p with 0 <= p < 65536
PortInRange(p) == p >= 0 /\ p < 65536

(***************************************************************************)
(* ProcessPortDetector                                                     *)
(***************************************************************************)
\* largest maxRetries argument explored
MaxRetriesBound == 3

RetryInputs == (0 - 1)..MaxRetriesBound

VARIABLES
    platform,        \* the strategy variant held by the detector
    pc,              \* where detectProcessInfo is suspended
    maxRetries,      \* its argument
    attempt,         \* the loop counter
    psResult,        \* this attempt: how the process-list command settled
    processInfo,     \* this attempt: what parseProcessInfo returned
    portCmd,         \* this attempt: the port-list command that was run
    portResult,      \* this attempt: how the port-list command settled
    listeningPorts,  \* this attempt: what getProcessListeningPorts returned
    probes,          \* this attempt: the requests of testPortConnectivity, in order
    result,          \* what detectProcessInfo returned
    thrown,          \* whether detectProcessInfo rejected
    lastCause,       \* why the last failed attempt failed
    nAttempts,       \* attempts started (process-list commands run)
    nDelays,         \* inter-attempt delays started
    shape,           \* parser run: what the text was rendered from
    input,           \* parser run: the text handed to a parser
    parsedInfo,      \* parser run: result of parseProcessInfo
    parsedPorts      \* parser run: result of parseListeningPorts

detectorVars ==
    <<pc, maxRetries, attempt, psResult, processInfo, portCmd, portResult,
      listeningPorts, probes, result, thrown, lastCause, nAttempts, nDelays>>

parserVars == <<shape, input, parsedInfo, parsedPorts>>

vars == <<platform, detectorVars, parserVars>>

NotRun == [kind |-> "none"]

Pending == [kind |-> "pending"]

\* the activation of detectProcessInfo as one record
Frame ==
    [pc |-> pc, maxRetries |-> maxRetries, attempt |-> attempt, psResult |-> psResult,
     processInfo |-> processInfo, portCmd |-> portCmd, portResult |-> portResult,
     listeningPorts |-> listeningPorts, probes |-> probes, result |-> result,
     thrown |-> thrown, lastCause |-> lastCause, nAttempts |-> nAttempts, nDelays |-> nDelays]

Becomes(f) ==
    /\ pc' = f.pc
    /\ maxRetries' = f.maxRetries
    /\ attempt' = f.attempt
    /\ psResult' = f.psResult
    /\ processInfo' = f.processInfo
    /\ portCmd' = f.portCmd
    /\ portResult' = f.portResult
    /\ listeningPorts' = f.listeningPorts
    /\ probes' = f.probes
    /\ result' = f.result
    /\ thrown' = f.thrown
    /\ lastCause' = f.lastCause
    /\ nAttempts' = f.nAttempts
    /\ nDelays' = f.nDelays

\* the loop test written with < : the last attempt is never made
LoopCondStrict(a, m) == a < m

\* the test of a do-while loop: the first iteration always runs
LoopCondAtLeastOnce(a, m) == a = 1 \/ a <= m

\* for (...; attempt <= maxRetries; ...)
LoopCond(a, m) == a <= m

\* the retry test written with <= : a delay also follows the last attempt
HasRetriesLeftInclusive(a, m) == a <= m

\* if (attempt < maxRetries)
HasRetriesLeft(a, m) == a < m

\* any 2xx status taken for success
StatusOkAny2xx(status) == status >= 200 /\ status < 300

\* res.statusCode === 200
StatusOk(status) == status = 200

\* !connectPort, for the number | null that findWorkingPort returns
Falsy(connectPort) == connectPort = Null \/ connectPort = Num(0)

\* the declared port returned in place of the verified one
CredentialsDeclaredPort(info, connectPort) ==
    [kind |-> "credentials", extensionPort |-> info.extensionPort,
     connectPort |-> info.extensionPort, csrfToken |-> info.csrfToken]

\* return { extensionPort, connectPort, csrfToken }
Credentials(info, connectPort) ==
    [kind |-> "credentials", extensionPort |-> info.extensionPort,
     connectPort |-> connectPort, csrfToken |-> info.csrfToken]

\* the loop body up to `await execAsync(command, { timeout: 5000 })`: the locals of
\* the iteration are fresh
StartAttempt(f, a) ==
    [f EXCEPT !.attempt = a, !.nAttempts = @ + 1, !.pc = "awaitPs",
              !.psResult = NotRun, !.processInfo = Null, !.portCmd = NotRun,
              !.portResult = NotRun, !.listeningPorts = <<>>, !.probes = <<>>]

\* the loop test with counter a, then either the next iteration or `return null`
LoopFrom(f, a) ==
    IF LoopCond(a, f.maxRetries) THEN StartAttempt(f, a)
    ELSE [f EXCEPT !.attempt = a, !.pc = "done", !.result = Null]

\* a loop without `attempt++`: the last attempt is started again
AfterCatchNoIncrement(f) ==
    IF HasRetriesLeft(f.attempt, f.maxRetries)
    THEN [f EXCEPT !.pc = "delay", !.nDelays = @ + 1]
    ELSE LoopFrom(f, f.attempt)

\* the code after the catch block: the delay if attempts remain, else attempt++
AfterCatch(f) ==
    IF HasRetriesLeft(f.attempt, f.maxRetries)
    THEN [f EXCEPT !.pc = "delay", !.nDelays = @ + 1]
    ELSE LoopFrom(f, f.attempt + 1)

\* a catch block that rethrows: the rejection reaches the caller
AttemptFailedRethrown(f, cause) ==
    [f EXCEPT !.lastCause = cause, !.pc = "done", !.thrown = TRUE]

\* a catch block that gives up on a failed command instead of retrying
AttemptFailedGiveUpOnCommand(f, cause) ==
    IF cause = "CommandExecutionFailure"
    THEN [f EXCEPT !.lastCause = cause, !.pc = "done", !.result = Null]
    ELSE AfterCatch([f EXCEPT !.lastCause = cause])

\* an error raised inside the try block: catch (error) { log }, then the code after it
AttemptFailed(f, cause) == AfterCatch([f EXCEPT !.lastCause = cause])

\* testPortConnectivity: the request as created by https.request(options, ...)
NewRequest(port, csrfToken) ==
    [port |-> port, token |-> csrfToken, phase |-> "open", status |-> 0,
     settled |-> FALSE, value |-> FALSE]

\* an outcome kept in a flag that every callback overwrites
ResolveOverwrite(req, v) == [req EXCEPT !.settled = TRUE, !.value = v]

\* resolve(v) of the promise of one testPortConnectivity call
Resolve(req, v) ==
    IF req.settled THEN req ELSE [req EXCEPT !.settled = TRUE, !.value = v]

\* success without `return`: control falls through to the code after the catch
AfterFindWorkingPortNoReturn(f, connectPort) ==
    IF connectPort = Null \/ connectPort = [kind |-> "num", val |-> 0]
    THEN AttemptFailed(f, "NoWorkingPort")
    ELSE AfterCatch([f EXCEPT !.result = [kind |-> "credentials",
                                          extensionPort |-> f.processInfo.extensionPort,
                                          connectPort |-> connectPort.val,
                                          csrfToken |-> f.processInfo.csrfToken]])

\* after findWorkingPort returned connectPort
AfterFindWorkingPort(f, connectPort) ==
    IF Falsy(connectPort) THEN AttemptFailed(f, "NoWorkingPort")
    ELSE [f EXCEPT !.pc = "done", !.result = Credentials(f.processInfo, connectPort.val)]

\* findWorkingPort: the head of `for (const port of ports)` after Len(f.probes) ports;
\* sync = "threw" when https.request rejects the port synchronously
TestNextPort(f, sync) ==
    LET i == Len(f.probes) + 1
    IN  IF i > Len(f.listeningPorts) THEN AfterFindWorkingPort(f, Null)
        ELSE IF sync = "threw" /\ ~PortInRange(f.listeningPorts[i])
             THEN AttemptFailed(f, "RequestFailure")
        ELSE [f EXCEPT !.pc = "awaitProbe",
                       !.probes = Append(@, NewRequest(f.listeningPorts[i],
                                                       f.processInfo.csrfToken))]

\* findWorkingPort resumed with the value of the awaited probe
AfterProbe(f, sync) ==
    LET req == f.probes[Len(f.probes)]
    IN  IF req.value THEN AfterFindWorkingPort(f, Num(req.port))
        ELSE TestNextPort(f, sync)

\* how an awaited async call completes
Returned(v) == [kind |-> "returned", value |-> v]

Rejected == [kind |-> "rejected"]

\* getProcessListeningPorts without its try/catch: a failed command rejects
GetProcessListeningPortsUncaught(variant, r) ==
    IF r.kind = "ok" THEN Returned(ParseListeningPorts(variant, r.stdout)) ELSE Rejected

\* getProcessListeningPorts, given how its execAsync settled: the catch returns []
GetProcessListeningPorts(variant, r) ==
    IF r.kind = "ok" THEN Returned(ParseListeningPorts(variant, r.stdout)) ELSE Returned(<<>>)

\* detectProcessInfo resumed after `await this.getProcessListeningPorts(pid)`, inside
\* its own try block
AfterPortList(f, variant, r, sync) ==
    LET done  == GetProcessListeningPorts(variant, r)
        ports == IF done.kind = "returned" THEN done.value ELSE <<>>
        g     == [f EXCEPT !.portResult = r, !.listeningPorts = ports]
    IN  IF done.kind = "rejected" THEN AttemptFailed(g, "CommandExecutionFailure")
        ELSE IF Len(ports) = 0 THEN AttemptFailed(g, "NoListeningPorts")
        ELSE TestNextPort(g, sync)

\* no test of the parse result: the port-list command is run for pid 0 when there is
\* no ProcessInfo
AfterProcessListNoParseCheck(f, variant, r) ==
    LET g    == [f EXCEPT !.psResult = r]
        info == ParseProcessInfo(variant, r.stdout)
        used == IF info = Null
                THEN [kind |-> "info", pid |-> 0, extensionPort |-> 0, csrfToken |-> <<>>]
                ELSE info
    IN  IF r.kind /= "ok" THEN AttemptFailed(g, "CommandExecutionFailure")
        ELSE [g EXCEPT !.processInfo = used, !.pc = "awaitPorts",
                       !.portCmd = [kind |-> "cmd", pid |-> used.pid]]

\* detectProcessInfo resumed after the process-list command
AfterProcessList(f, variant, r) ==
    LET g    == [f EXCEPT !.psResult = r]
        info == ParseProcessInfo(variant, r.stdout)
    IN  IF r.kind /= "ok" THEN AttemptFailed(g, "CommandExecutionFailure")
        ELSE IF info = Null THEN AttemptFailed(g, "ProcessNotFound")
        ELSE [g EXCEPT !.processInfo = info, !.pc = "awaitPorts",
                       !.portCmd = [kind |-> "cmd", pid |-> info.pid]]

(***************************************************************************)
(* Actions of the detection                                                *)
(***************************************************************************)
\* detectProcessInfo(maxRetries) is called
Call ==
    /\ pc = "idle"
    /\ \E m \in RetryInputs : Becomes(LoopFrom([Frame EXCEPT !.maxRetries = m], 1))
    /\ UNCHANGED <<platform, parserVars>>

\* the process-list command settles
ProcessListDone ==
    /\ pc = "awaitPs"
    /\ \E r \in ExecResults(PsOutputs(platform)) : Becomes(AfterProcessList(Frame, platform, r))
    /\ UNCHANGED <<platform, parserVars>>

\* the port-list command settles
PortListDone ==
    /\ pc = "awaitPorts"
    /\ \E r \in ExecResults(PortOutputs(platform)), sync \in {"sent", "threw"} :
           Becomes(AfterPortList(Frame, platform, r, sync))
    /\ UNCHANGED <<platform, parserVars>>

\* the response callback of request i
ProbeResponse(i) ==
    /\ probes[i].phase = "open"
    /\ PortInRange(probes[i].port)
    /\ \E status \in StatusCodes :
           probes' = [probes EXCEPT ![i] =
                         Resolve([@ EXCEPT !.phase = "responded", !.status = status],
                                 StatusOk(status))]
    /\ UNCHANGED <<platform, parserVars, pc, maxRetries, attempt, psResult, processInfo,
                   portCmd, portResult, listeningPorts, result, thrown, lastCause,
                   nAttempts, nDelays>>

\* req.on('error')
ProbeError(i) ==
    /\ probes[i].phase \in {"open", "responded", "destroyed"}
    /\ probes' = [probes EXCEPT ![i] = Resolve([@ EXCEPT !.phase = "closed"], FALSE)]
    /\ UNCHANGED <<platform, parserVars, pc, maxRetries, attempt, psResult, processInfo,
                   portCmd, portResult, listeningPorts, result, thrown, lastCause,
                   nAttempts, nDelays>>

\* req.on('timeout'): req.destroy(), then resolve(false)
ProbeTimeout(i) ==
    /\ probes[i].phase \in {"open", "responded"}
    /\ probes' = [probes EXCEPT ![i] = Resolve([@ EXCEPT !.phase = "destroyed"], FALSE)]
    /\ UNCHANGED <<platform, parserVars, pc, maxRetries, attempt, psResult, processInfo,
                   portCmd, portResult, listeningPorts, result, thrown, lastCause,
                   nAttempts, nDelays>>

\* the response has been consumed (res.resume()) and the server closes the connection
ConnectionClosed(i) ==
    /\ probes[i].phase = "responded"
    /\ probes' = [probes EXCEPT ![i].phase = "closed"]
    /\ UNCHANGED <<platform, parserVars, pc, maxRetries, attempt, psResult, processInfo,
                   portCmd, portResult, listeningPorts, result, thrown, lastCause,
                   nAttempts, nDelays>>

\* findWorkingPort resumes once the awaited probe is settled
ProbeAwaited ==
    /\ pc = "awaitProbe"
    /\ probes[Len(probes)].settled
    /\ \E sync \in {"sent", "threw"} : Becomes(AfterProbe(Frame, sync))
    /\ UNCHANGED <<platform, parserVars>>

\* the setTimeout of the inter-attempt delay fires: attempt++ and the loop test
DelayElapsed ==
    /\ pc = "delay"
    /\ Becomes(LoopFrom(Frame, attempt + 1))
    /\ UNCHANGED <<platform, parserVars>>

Init ==
    /\ platform \in Platforms
    /\ pc = "idle"
    /\ maxRetries = 0
    /\ attempt = 0
    /\ psResult = NotRun
    /\ processInfo = Null
    /\ portCmd = NotRun
    /\ portResult = NotRun
    /\ listeningPorts = <<>>
    /\ probes = <<>>
    /\ result = Pending
    /\ thrown = FALSE
    /\ lastCause = "none"
    /\ nAttempts = 0
    /\ nDelays = 0
    /\ shape = <<>>
    /\ input = <<>>
    /\ parsedInfo = NotRun
    /\ parsedPorts = NotRun

Next ==
    \/ Call
    \/ ProcessListDone
    \/ PortListDone
    \/ \E i \in 1..Len(probes) : ProbeResponse(i)
    \/ \E i \in 1..Len(probes) : ProbeError(i)
    \/ \E i \in 1..Len(probes) : ProbeTimeout(i)
    \/ \E i \in 1..Len(probes) : ConnectionClosed(i)
    \/ ProbeAwaited
    \/ DelayElapsed

Spec == Init /\ [][Next]_vars

\* the detection in an environment where every command settles (the exec timeouts),
\* every probe is decided (response, error or the 2 s timeout), every delay elapses
\* and the event loop resumes a settled await
FairSpec ==
    /\ Spec
    /\ WF_vars(ProcessListDone)
    /\ WF_vars(PortListDone)
    /\ WF_vars(\E i \in 1..Len(probes) : ProbeResponse(i) \/ ProbeError(i) \/ ProbeTimeout(i))
    /\ WF_vars(ProbeAwaited)
    /\ WF_vars(DelayElapsed)

(***************************************************************************)
(* The parsers on their own: every text of a bounded family is rendered    *)
(* from a shape and handed to the parser of the selected variant           *)
(***************************************************************************)
\* most process lines (records) in one process-list output
MaxPsLines == 2

\* most socket lines in one port-list output
MaxPortLines == 3

PidKinds == {"4412", "0", "x", "-5", "12x", "none"}

PortKinds == {"none", "=2873", " 41", "=x"}

TokenKinds == {"none", "=A", "UPPER B", "=x"}

PidWord(k) ==
    CASE k = "4412" -> ToDigits(4412)
      [] k = "0"    -> ToDigits(0)
      [] k = "x"    -> <<"x">>
      [] k = "-5"   -> <<"-", "5">>
      [] k = "12x"  -> <<"1", "2", "x">>
      [] OTHER      -> <<>>

PortArgOf(k) ==
    CASE k = "=2873" -> PortArg(2873)
      [] k = " 41"   -> <<" ", "--extension_server_port", " ", "4", "1">>
      [] k = "=x"    -> <<" ", "--extension_server_port", "=", "x">>
      [] OTHER       -> <<>>

TokenArgOf(k) ==
    CASE k = "=A"      -> TokenArg(TokenA)
      [] k = "UPPER B" -> <<" ", "--CSRF_TOKEN", " ">> \o TokenB
      [] k = "=x"      -> <<" ", "--csrf_token", "=", "x", "1">>
      [] OTHER         -> <<>>

PsLineShapes == [pid : PidKinds, port : PortKinds, token : TokenKinds]

\* the lines that may follow the first one
FollowLineShapes ==
    { [pid |-> "0", port |-> "none", token |-> "none"],
      [pid |-> "4412", port |-> "=2873", token |-> "=A"],
      [pid |-> "x", port |-> " 41", token |-> "UPPER B"],
      [pid |-> "12x", port |-> "none", token |-> "=A"] }

RECURSIVE SeqsUpTo(_, _)
SeqsUpTo(S, n) ==
    IF n = 0 THEN {<<>>}
    ELSE LET shorter == SeqsUpTo(S, n - 1)
         IN  shorter \cup {Append(q, x) : q \in shorter, x \in S}

PsShapes ==
    [pad : BOOLEAN,
     lines : {<<>>} \cup {<<l>> \o rest : l \in PsLineShapes,
                                          rest \in SeqsUpTo(FollowLineShapes, MaxPsLines - 1)}]

RenderPsLine(variant, l) ==
    IF variant = "windows"
    THEN WindowsPsOut(PortArgOf(l.port) \o TokenArgOf(l.token),
                      IF l.pid = "none" THEN <<>> ELSE <<"ProcessId=">> \o PidWord(l.pid))
    ELSE IF l.pid = "none"
         THEN <<"user">> \o PortArgOf(l.port) \o TokenArgOf(l.token) \o <<"\n">>
         ELSE UnixPsLine(PidWord(l.pid), PortArgOf(l.port) \o TokenArgOf(l.token))

RECURSIVE RenderPsLines(_, _)
RenderPsLines(variant, ls) ==
    IF ls = <<>> THEN <<>> ELSE RenderPsLine(variant, Head(ls)) \o RenderPsLines(variant, Tail(ls))

RenderPs(variant, sh) ==
    (IF sh.pad THEN <<" ", "\n">> ELSE <<>>) \o RenderPsLines(variant, sh.lines)

PortLineShapes ==
    { [host |-> "127.0.0.1:", port |-> 8000, listening |-> TRUE, fmt |-> "lsof"],
      [host |-> "127.0.0.1:", port |-> 9001, listening |-> TRUE, fmt |-> "lsof"],
      [host |-> "127.0.0.1:", port |-> 9001, listening |-> TRUE, fmt |-> "netstat"],
      [host |-> "127.0.0.1:", port |-> 0, listening |-> TRUE, fmt |-> "netstat"],
      [host |-> "localhost:", port |-> 8000, listening |-> TRUE, fmt |-> "lsof"],
      [host |-> "localhost:", port |-> 443, listening |-> TRUE, fmt |-> "netstat"],
      [host |-> "*:", port |-> 8000, listening |-> TRUE, fmt |-> "lsof"],
      [host |-> "127.0.0.1:", port |-> 8000, listening |-> FALSE, fmt |-> "lsof"] }

PortShapes == [pad : BOOLEAN, lines : SeqsUpTo(PortLineShapes, MaxPortLines)]

RenderPortLine(variant, l) ==
    IF variant = "windows"
    THEN WinNetstatLine(l.host, l.port, IF l.listening THEN "LISTENING" ELSE "ESTABLISHED")
    ELSE IF l.fmt = "lsof"
         THEN LsofLine(l.host, l.port, IF l.listening THEN "(LISTEN)" ELSE "(ESTABLISHED)")
         ELSE NetstatLine(l.host, l.port, IF l.listening THEN "LISTEN" ELSE "ESTABLISHED")

RECURSIVE RenderPortLines(_, _)
RenderPortLines(variant, ls) ==
    IF ls = <<>> THEN <<>>
    ELSE RenderPortLine(variant, Head(ls)) \o RenderPortLines(variant, Tail(ls))

RenderPorts(variant, sh) ==
    (IF sh.pad THEN <<"\n", " ">> ELSE <<>>) \o RenderPortLines(variant, sh.lines)

ParseInit ==
    /\ platform \in Platforms
    /\ \/ /\ pc = "parseProcessInfo"
          /\ shape \in PsShapes
          /\ input = RenderPs(platform, shape)
       \/ /\ pc = "parseListeningPorts"
          /\ shape \in PortShapes
          /\ input = RenderPorts(platform, shape)
    /\ maxRetries = 0
    /\ attempt = 0
    /\ psResult = NotRun
    /\ processInfo = Null
    /\ portCmd = NotRun
    /\ portResult = NotRun
    /\ listeningPorts = <<>>
    /\ probes = <<>>
    /\ result = Pending
    /\ thrown = FALSE
    /\ lastCause = "none"
    /\ nAttempts = 0
    /\ nDelays = 0
    /\ parsedInfo = NotRun
    /\ parsedPorts = NotRun

\* this.platformStrategy.parseProcessInfo(stdout)
ApplyParseProcessInfo ==
    /\ pc = "parseProcessInfo"
    /\ parsedInfo' = ParseProcessInfo(platform, input)
    /\ pc' = "parsed"
    /\ UNCHANGED <<platform, shape, input, parsedPorts, maxRetries, attempt, psResult,
                   processInfo, portCmd, portResult, listeningPorts, probes, result,
                   thrown, lastCause, nAttempts, nDelays>>

\* this.platformStrategy.parseListeningPorts(stdout)
ApplyParseListeningPorts ==
    /\ pc = "parseListeningPorts"
    /\ parsedPorts' = ParseListeningPorts(platform, input)
    /\ pc' = "parsed"
    /\ UNCHANGED <<platform, shape, input, parsedInfo, maxRetries, attempt, psResult,
                   processInfo, portCmd, portResult, listeningPorts, probes, result,
                   thrown, lastCause, nAttempts, nDelays>>

ParseNext == ApplyParseProcessInfo \/ ApplyParseListeningPorts

ParseSpec == ParseInit /\ [][ParseNext]_vars

(***************************************************************************)
(* Properties                                                              *)
(***************************************************************************)
Awaiting == {"awaitPs", "awaitPorts", "awaitProbe"}

\* the step ends the running attempt without credentials
AttemptEndsInFailure ==
    /\ pc \in Awaiting
    /\ pc' \in {"delay", "done", "awaitPs"}
    /\ result'.kind /= "credentials"

\* C1: returned credentials all come from the attempt that succeeded: the token and
\* the declared port are the ones parsed from that attempt's process-list output, the
\* connect port is one of that attempt's parsed candidates, and a probe of that attempt
\* to that port, carrying that token, was answered with status 200.
C1_CredentialsFromOneAttempt ==
    result.kind = "credentials" =>
        /\ psResult.kind = "ok"
        /\ ParseProcessInfo(platform, psResult.stdout) /= Null
        /\ result.csrfToken = ParseProcessInfo(platform, psResult.stdout).csrfToken
        /\ result.extensionPort = ParseProcessInfo(platform, psResult.stdout).extensionPort
        /\ portResult.kind = "ok"
        /\ Includes(ParseListeningPorts(platform, portResult.stdout), result.connectPort)
        /\ \E i \in 1..Len(probes) :
               /\ probes[i].port = result.connectPort
               /\ probes[i].status = 200
               /\ probes[i].token = result.csrfToken

\* credentials returned by a second attempt whose token differs from nothing parsed before
C1_Witness ==
    /\ result.kind = "credentials"
    /\ attempt = 2
    /\ result.extensionPort = 0
    /\ result.connectPort = 9001

\* C2: with maxRetries >= 1, the absent result is returned only after exactly
\* maxRetries attempts were started and exactly maxRetries - 1 delays were waited.
C2_AbsentAfterExactlyMaxRetries ==
    (pc = "done" /\ result = Null /\ maxRetries >= 1) =>
        /\ nAttempts = maxRetries
        /\ nDelays = maxRetries - 1
        /\ lastCause /= "none"

C2_Witness ==
    /\ pc = "done"
    /\ result = Null
    /\ maxRetries = 3
    /\ nAttempts = 3
    /\ nDelays = 2
    /\ lastCause = "NoListeningPorts"
    /\ portResult.kind = "ok"

\* what detectProcessInfo can observe or cause: attempts, commands, probes, delays
Events == <<pc, attempt, nAttempts, nDelays, psResult, portCmd, portResult, Len(probes), result>>

\* C3: credentials are returned by the attempt that produced them, straight after its
\* successful probe (the last probe issued), and from then on no attempt is started,
\* no command is run, no probe is issued and no delay is waited.
C3_SuccessStopsEverything ==
    /\ [](result.kind = "credentials" =>
            /\ pc = "done"
            /\ nAttempts = attempt
            /\ nDelays = attempt - 1
            /\ attempt <= maxRetries
            /\ probes[Len(probes)].value
            /\ probes[Len(probes)].port = result.connectPort)
    /\ [][result.kind = "credentials" => Events' = Events]_vars

\* maxRetries = 3, attempt 1 failed on parsing, attempt 2 succeeded, no attempt 3
C3_Witness ==
    /\ result.kind = "credentials"
    /\ maxRetries = 3
    /\ attempt = 2
    /\ nAttempts = 2
    /\ lastCause = "ProcessNotFound"

\* C4: within an attempt the probes go to the candidates in strictly ascending port
\* order, each candidate at most once, a probe is issued only after every earlier one
\* failed, and none is issued after one succeeded.
C4_ProbesAscendingShortCircuit ==
    /\ Len(probes) <= Len(listeningPorts)
    /\ \A i \in 1..Len(probes) : probes[i].port = listeningPorts[i]
    /\ \A i, j \in 1..Len(probes) : i < j => probes[i].port < probes[j].port
    /\ \A i \in 1..Len(probes) : i < Len(probes) => probes[i].settled /\ ~probes[i].value

\* candidates 8000 and 9001: 8000 probed first and failed, then 9001 succeeded
C4_Witness ==
    /\ Len(probes) = 2
    /\ probes[1].port = 8000
    /\ probes[1].settled /\ ~probes[1].value
    /\ probes[2].port = 9001
    /\ probes[2].value
    /\ pc = "done"

\* C5: an attempt that reached the probing step fails only if none of its candidate
\* ports was answered with status 200.
C5_FailsOnlyIfNoPortAnswers200 ==
    (pc \in {"delay", "done"} /\ result.kind /= "credentials" /\ Len(probes) > 0) =>
        \A i \in 1..Len(probes) : probes[i].status /= 200

C7_PortListFailureMeansNoPorts ==
    portResult.kind \in {"timeout", "exit", "unavailable"} =>
        /\ listeningPorts = <<>>
        /\ probes = <<>>
        /\ lastCause = "NoListeningPorts"
        /\ ~thrown
        /\ pc \in {"delay", "done"}
        /\ pc = "delay" <=> attempt < maxRetries
        /\ pc = "done" => result = Null

C7_Witness ==
    /\ portResult.kind = "timeout"
    /\ pc = "delay"
    /\ attempt = 1
    /\ processInfo /= Null

\* C8: a failed attempt k is followed by a delay exactly when k < maxRetries, the delay
\* is followed by the start of attempt k + 1, and no delay follows the last attempt or a
\* successful one: one delay separates two consecutive attempts.
C8_DelayBetweenAttemptsOnly ==
    /\ [](/\ pc = "delay" => (attempt < maxRetries /\ nDelays = attempt /\ nAttempts = attempt)
          /\ pc \in Awaiting => (nDelays = attempt - 1 /\ nAttempts = attempt)
          /\ (pc = "done" /\ nAttempts > 0) => nDelays = nAttempts - 1)
    /\ [][AttemptEndsInFailure =>
            IF attempt < maxRetries
            THEN pc' = "delay" /\ nDelays' = nDelays + 1 /\ nAttempts' = nAttempts
            ELSE pc' = "done" /\ nDelays' = nDelays /\ nAttempts' = nAttempts]_vars
    /\ [][(pc = "delay" /\ pc' /= "delay") =>
            (/\ pc' = "awaitPs"
             /\ attempt' = attempt + 1
             /\ nAttempts' = nAttempts + 1
             /\ nDelays' = nDelays)]_vars

\* the second delay of a run with maxRetries = 3
C8_Witness ==
    /\ pc = "delay"
    /\ attempt = 2
    /\ nDelays = 2
    /\ maxRetries = 3

\* C9: detectProcessInfo never rejects: it ends with credentials or with the absent
\* result, every failure inside an attempt goes to the retry step, and the absent result
\* is returned only when every attempt has been made.
C9_NoErrorReachesCaller ==
    /\ [](/\ ~thrown
          /\ pc = "done" => result.kind \in {"credentials", "null"}
          /\ pc /= "done" => result = Pending
          /\ (pc = "done" /\ result = Null) =>
                 (attempt > maxRetries /\ nAttempts = IF maxRetries > 0 THEN maxRetries ELSE 0))
    /\ [][AttemptEndsInFailure =>
            (/\ lastCause' \in {"ProcessNotFound", "NoListeningPorts", "NoWorkingPort",
                                "CommandExecutionFailure", "RequestFailure"}
             /\ pc' \in {"delay", "done"}
             /\ pc' = "done" => (result' = Null /\ attempt >= maxRetries))]_vars

\* both commands and the request have failed in turn, and the run ended absent
C9_Witness ==
    /\ pc = "done"
    /\ result = Null
    /\ maxRetries = 2
    /\ lastCause = "RequestFailure"
    /\ psResult.kind = "ok"

(***************************************************************************)
(* What the parsers must find in a text, read off the shape it was         *)
(* rendered from                                                           *)
(***************************************************************************)
\* the text is empty or white space only
ShapeBlank(sh) == sh.lines = <<>>

\* some --csrf_token flag carries a hex-with-dashes value
ShapeHasToken(sh) == \E i \in 1..Len(sh.lines) : sh.lines[i].token \in {"=A", "UPPER B"}

\* a pid can be read: Unix, the second column of the first line starts with a number;
\* Windows, some ProcessId= field is followed by digits
ShapeHasPid(variant, sh) ==
    IF variant = "windows"
    THEN \E i \in 1..Len(sh.lines) : sh.lines[i].pid \in {"4412", "0", "12x"}
    ELSE sh.lines /= <<>> /\ sh.lines[1].pid \in {"4412", "0", "-5", "12x"}

\* the digits of the first --extension_server_port flag that has digits, else 0
ShapeDeclaredPort(sh) ==
    LET with == {i \in 1..Len(sh.lines) : sh.lines[i].port \in {"=2873", " 41"}}
    IN  IF with = {} THEN 0
        ELSE IF sh.lines[Min(with)].port = "=2873" THEN 2873 ELSE 41

\* C10: parseProcessInfo (either variant) returns absent exactly when the output is
\* blank, no pid can be parsed or no --csrf_token value is found; otherwise the declared
\* port of its result is the digits of --extension_server_port, or 0 without them.
C10_ParseProcessInfoAbsentIff ==
    (pc = "parsed" /\ parsedInfo /= NotRun) =>
        /\ parsedInfo = Null <=>
               (ShapeBlank(shape) \/ ~ShapeHasPid(platform, shape) \/ ~ShapeHasToken(shape))
        /\ parsedInfo /= Null => parsedInfo.extensionPort = ShapeDeclaredPort(shape)

\* a Unix line with pid and token but no port flag parses, with declared port 0
C10_Witness ==
    /\ pc = "parsed"
    /\ platform = "unix"
    /\ parsedInfo /= NotRun
    /\ parsedInfo /= Null
    /\ parsedInfo.extensionPort = 0
    /\ Len(shape.lines) = 1
    /\ shape.lines[1].port = "none"

\* the ports of the lines a variant recognizes as loopback listening sockets: Unix,
\* host 127.0.0.1 or localhost followed by LISTEN; Windows, host 127.0.0.1 in state
\* LISTENING
ShapeRecognizedPorts(variant, sh) ==
    {sh.lines[i].port : i \in {j \in 1..Len(sh.lines) :
        /\ sh.lines[j].listening
        /\ sh.lines[j].host \in (IF variant = "windows" THEN {"127.0.0.1:"}
                                 ELSE {"127.0.0.1:", "localhost:"})}}

\* C11: parseListeningPorts (either variant) always returns a sequence; it is strictly
\* ascending and holds each recognized loopback listening port of the text exactly
\* once, whatever the order and multiplicity of the lines; for a text that is empty or
\* has no recognized line it is the empty sequence.
C11_ListeningPortsSortedDistinctComplete ==
    (pc = "parsed" /\ parsedInfo = NotRun) =>
        /\ parsedPorts \in Seq(Int)
        /\ \A i, j \in 1..Len(parsedPorts) : i < j => parsedPorts[i] < parsedPorts[j]
        /\ {parsedPorts[i] : i \in 1..Len(parsedPorts)} = ShapeRecognizedPorts(platform, shape)
        /\ ShapeRecognizedPorts(platform, shape) = {} => parsedPorts = <<>>

\* lines for 9001, 8000 and 9001 again, in two layouts, give [8000, 9001]
C11_Witness ==
    /\ pc = "parsed"
    /\ parsedInfo = NotRun
    /\ platform = "unix"
    /\ Len(shape.lines) = 3
    /\ shape.lines[1].port = 9001 /\ shape.lines[1].fmt = "lsof"
    /\ shape.lines[2].port = 8000
    /\ shape.lines[3].port = 9001 /\ shape.lines[3].fmt = "netstat"
    /\ parsedPorts = <<8000, 9001>>

\* the process-list step of the running attempt yielded no ProcessInfo
NoProcessInfo ==
    \/ psResult.kind \in {"timeout", "exit", "unavailable"}
    \/ psResult.kind = "ok" /\ ParseProcessInfo(platform, psResult.stdout) = Null

\* C12: the steps of an attempt come in the order process list, parse, port list,
\* parse, probes, each gated by the one before: a port-list command was run only after
\* this attempt's process-list command succeeded and parsed to a ProcessInfo, and for
\* the pid of that ProcessInfo; a probe was issued only for a non-empty port set parsed
\* from this attempt's port-list output; an attempt whose process-list command failed
\* or parsed to absent has failed with no port-list command and no probe.
C12_StepsOrderedAndGated ==
    /\ [](/\ portCmd.kind = "cmd" =>
                /\ psResult.kind = "ok"
                /\ ~NoProcessInfo
                /\ processInfo = ParseProcessInfo(platform, psResult.stdout)
                /\ portCmd.pid = ParseProcessInfo(platform, psResult.stdout).pid
          /\ portResult /= NotRun => portCmd.kind = "cmd"
          /\ probes /= <<>> =>
                /\ portResult.kind = "ok"
                /\ listeningPorts /= <<>>
                /\ listeningPorts = ParseListeningPorts(platform, portResult.stdout)
          /\ NoProcessInfo =>
                /\ portCmd = NotRun /\ portResult = NotRun /\ probes = <<>>
                /\ pc \in {"delay", "done"}
                /\ result.kind /= "credentials"
          /\ pc = "awaitPs" => (psResult = NotRun /\ portCmd = NotRun /\ probes = <<>>)
          /\ pc = "awaitPorts" => (portCmd.kind = "cmd" /\ portResult = NotRun /\ probes = <<>>)
          /\ pc = "awaitProbe" => (portResult.kind = "ok" /\ probes /= <<>>))
    /\ [][/\ pc = "awaitPs" => pc' \in {"awaitPs", "awaitPorts", "delay", "done"}
          /\ (pc = "awaitPs" /\ pc' = "awaitPs") => UNCHANGED detectorVars
          /\ pc = "awaitPorts" => pc' \in {"awaitPorts", "awaitProbe", "delay", "done"}
          /\ (pc = "awaitPorts" /\ pc' = "awaitPorts") => UNCHANGED detectorVars
          /\ pc = "awaitProbe" => pc' \in {"awaitProbe", "delay", "done"}]_vars

\* attempt 1 ended at the process-list step; attempt 2 is probing for pid 977
C12_Witness ==
    /\ attempt = 2
    /\ lastCause \in {"CommandExecutionFailure", "ProcessNotFound"}
    /\ pc = "awaitProbe"
    /\ portCmd = [kind |-> "cmd", pid |-> 977]
    /\ Len(probes) = 2

\* C13 as stated: once detectProcessInfo is called, the attempt counter and the number
\* of attempts started are at most maxRetries in every state, and the probes of an
\* attempt are at most its candidate ports
C13_CounterNeverExceedsMaxRetries ==
    pc /= "idle" =>
        /\ attempt <= maxRetries
        /\ nAttempts <= maxRetries
        /\ Len(probes) <= Len(listeningPorts)

\* C13: once called, detectProcessInfo eventually returns, given that commands settle,
\* probes are decided and delays elapse. While an attempt runs or a delay is waited the
\* attempt counter is between 1 and maxRetries; it is one more than the number of
\* attempts (maxRetries + 1, or 1 when maxRetries <= 0) only once the loop has been left
\* with the absent result. The attempts started never exceed max(maxRetries, 0), and the
\* probes of an attempt never exceed its candidate ports.
C13_ReturnsWithinBounds ==
    /\ (pc /= "idle") ~> (pc = "done" /\ result /= Pending)
    /\ [](/\ pc \in Awaiting \cup {"delay"} => (1 <= attempt /\ attempt <= maxRetries)
          /\ (pc = "done" /\ result = Null) =>
                 attempt = (IF maxRetries > 0 THEN maxRetries ELSE 0) + 1
          /\ (pc = "done" /\ result /= Null) => (1 <= attempt /\ attempt <= maxRetries)
          /\ nAttempts <= (IF maxRetries > 0 THEN maxRetries ELSE 0)
          /\ Len(probes) <= Len(listeningPorts))

\* three attempts that each probed both candidates, then the absent result
C13_Witness ==
    /\ pc = "done"
    /\ result = Null
    /\ maxRetries = 3
    /\ attempt = 4
    /\ nAttempts = 3
    /\ Len(listeningPorts) = 2
    /\ Len(probes) = 2

\* the requests whose connection is open: not destroyed, not failed, not closed
OpenConnections == {i \in 1..Len(probes) : probes[i].phase \in {"open", "responded"}}

\* a command or the delay timer is pending
PendingCommandOrDelay == IF pc \in {"awaitPs", "awaitPorts", "delay"} THEN 1 ELSE 0

\* C14: at most one external operation (process-list command, port-list command, probe
\* connection, delay) is outstanding at any moment; when a probe has been started the
\* earlier probes of the attempt are decided as failed and their connections are no
\* longer open; an attempt after the first runs only after one more delay has elapsed.
C14_OneOperationOutstanding ==
    /\ Cardinality(OpenConnections) + PendingCommandOrDelay <= 1
    /\ \A i \in 1..Len(probes) :
           i < Len(probes) =>
               (probes[i].settled /\ ~probes[i].value /\ i \notin OpenConnections)
    /\ pc \in Awaiting => (nAttempts = attempt /\ nDelays = attempt - 1)

\* the control state of detectProcessInfo: everything but the cause and the locals of
\* the attempt that is over
Control == <<pc, attempt, nAttempts, nDelays, result, thrown>>

\* C15: what follows a failed attempt k is the same for every cause of the failure: a
\* delay and then attempt k + 1 with fresh locals if k < maxRetries, the absent result
\* otherwise; the cause is only recorded for the diagnostics.
C15_CauseDoesNotSteerControl ==
    /\ [][AttemptEndsInFailure =>
            /\ lastCause' /= "none"
            /\ Control' = IF attempt < maxRetries
                          THEN <<"delay", attempt, nAttempts, nDelays + 1, Pending, FALSE>>
                          ELSE <<"done", attempt + 1, nAttempts, nDelays, Null, FALSE>>]_vars
    /\ [][pc = "delay" =>
            \/ UNCHANGED <<Control, lastCause>>
            \/ /\ Control' = <<"awaitPs", attempt + 1, nAttempts + 1, nDelays, Pending, FALSE>>
               /\ <<psResult', processInfo', portCmd', portResult', listeningPorts', probes'>>
                      = <<NotRun, Null, NotRun, NotRun, <<>>, <<>>>>
               /\ lastCause' = lastCause]_vars

\* the tool of the second attempt was unavailable, the third attempt is about to run
C15_Witness ==
    /\ pc = "delay"
    /\ attempt = 2
    /\ maxRetries = 3
    /\ lastCause = "CommandExecutionFailure"
    /\ psResult.kind = "unavailable"

\* C16: every ProcessInfo returned by parseProcessInfo (either variant) has a positive
\* pid, a non-empty csrfToken of hexadecimal digits and dashes only, and a declared
\* port that is not negative.
C16_ProcessInfoWellFormed ==
    (pc = "parsed" /\ parsedInfo /= NotRun /\ parsedInfo /= Null) =>
        /\ parsedInfo.pid > 0
        /\ Len(parsedInfo.csrfToken) > 0
        /\ \A i \in 1..Len(parsedInfo.csrfToken) : parsedInfo.csrfToken[i] \in TokenClass
        /\ parsedInfo.extensionPort >= 0

\* C17: every candidate port that parseListeningPorts returned to an attempt is
\* positive, and so is the port of every probe: 0 is never a candidate, never probed.
C17_CandidatePortsPositive ==
    /\ \A i \in 1..Len(listeningPorts) : listeningPorts[i] > 0
    /\ \A i \in 1..Len(probes) : probes[i].port > 0

\* the token a process line carries, <<>> without one
ShapeLineToken(l) ==
    CASE l.token = "=A"      -> TokenA
      [] l.token = "UPPER B" -> TokenB
      [] OTHER               -> <<>>

\* the declared port a process line carries, 0 without one
ShapeLinePort(l) ==
    CASE l.port = "=2873" -> 2873
      [] l.port = " 41"   -> 41
      [] OTHER            -> 0

\* C18: a ProcessInfo returned by the Unix parseProcessInfo describes the process of
\* the first line: its pid is the second column of that line, and its csrfToken and
\* declared port are the values of the flags on that same line, never those of
\* another line.
C18_UnixInfoFromFirstLine ==
    (pc = "parsed" /\ platform = "unix" /\ parsedInfo /= NotRun /\ parsedInfo /= Null) =>
        /\ shape.lines /= <<>>
        /\ Num(parsedInfo.pid) = ParseInt(PidWord(shape.lines[1].pid))
        /\ parsedInfo.csrfToken = ShapeLineToken(shape.lines[1])
        /\ parsedInfo.extensionPort = ShapeLinePort(shape.lines[1])

\* C19: called with maxRetries <= 0, detectProcessInfo returns the absent result at
\* once, without an attempt: no process-list command, no port-list command, no probe
\* and no delay.
C19_NoAttemptWithoutRetries ==
    (pc /= "idle" /\ maxRetries <= 0) =>
        /\ pc = "done"
        /\ result = Null
        /\ ~thrown
        /\ nAttempts = 0
        /\ nDelays = 0
        /\ psResult = NotRun
        /\ portCmd = NotRun
        /\ portResult = NotRun
        /\ probes = <<>>

\* detectProcessInfo(-1) has returned
C19_Witness ==
    /\ pc = "done"
    /\ maxRetries = 0 - 1
    /\ result = Null
    /\ nAttempts = 0

\* C20: the outcome of a probe is decided by the first of its callbacks to fire
\* (response, error, timeout) and never again: a decided probe keeps its outcome, and a
\* callback that fires on a decided probe changes no other probe and nothing of the
\* attempt or of the result, whatever the order of the callbacks.
C20_ProbeDecidedOnce ==
    /\ [](\A i \in 1..Len(probes) : probes[i].settled <=> probes[i].phase /= "open")
    /\ [][nAttempts' = nAttempts =>
            /\ Len(probes') >= Len(probes)
            /\ \A i \in 1..Len(probes) :
                   probes[i].settled =>
                       (probes'[i].settled /\ probes'[i].value = probes[i].value)]_vars
    /\ [][\A i \in 1..Len(probes) :
            (probes[i].settled /\ Len(probes') = Len(probes) /\ probes'[i] /= probes[i]) =>
                /\ \A j \in 1..Len(probes) : j /= i => probes'[j] = probes[j]
                /\ UNCHANGED <<Control, lastCause, processInfo, listeningPorts>>]_vars

\* 8000 answered 404 and 9001 answered 200; the timeouts of both requests fired after
\* the responses, and the credentials for 9001 stand
C20_Witness ==
    /\ Len(probes) = 2
    /\ probes[1].status = 404 /\ probes[1].phase = "destroyed" /\ ~probes[1].value
    /\ probes[2].status = 200 /\ probes[2].phase = "destroyed" /\ probes[2].value
    /\ result.kind = "credentials"
    /\ result.connectPort = 9001

====
